---- MODULE Spec2Model ----
(***************************************************************************)
(* GPCP One-Degree Daily precipitation files: the header parser and the    *)
(* day reader of gpcp/onedd.py, onedd.py and gpcp.py (three generations of *)
(* the same reader living side by side in the repository).                 *)
(*                                                                         *)
(* Numbers with a fraction are kept in tenths: 89.5 is 895, the missing    *)
(* value -99999.0 is -999990.  The header block is a sequence of tokens: a *)
(* word token is a maximal run of \w characters, every other token is a    *)
(* run of characters that holds no '=' and neither starts nor ends with a  *)
(* \w character.  The grid is LatCount x LonCount cells (180 x 360 in the  *)
(* source), so a day is DAY_SIZE = LatCount * LonCount * REAL_SIZE bytes.  *)
(***************************************************************************)
EXTENDS Integers, Sequences, FiniteSets, TLC

\* ---------------------------------------------------------------- bounds
\* rows of the grid (xrange(180) in the source)
LatCount == 2
\* columns of the grid (xrange(360) in the source)
LonCount == 3
\* generator objects a client creates from one reader
MaxIters == 2
\* coordinate generators a client holds at once
MaxCoordGens == 2

\* ------------------------------------------------------------- constants
HEADER_SIZE == 1440
REAL_SIZE == 4
MEASUREMENTS_PER_DAY == LonCount * LatCount
DAY_SIZE == MEASUREMENTS_PER_DAY * REAL_SIZE

Impls == {"gpcp.onedd", "onedd", "gpcp"}

\* ------------------------------------------------------- header contents
WordTokens ==
  {"year", "month", "days", "missing_value", "title", "daily", "grid",
   "1st_box_center", "2nd_box_center", "last_box_center",
   "1997", "02", "0", "1", "2", "3", "4", "28", "29", "99999", "hello",
   "world"}

IsWord(t) == t \in WordTokens

KV(k, v) == <<k, "=">> \o v
SP == <<" ">>

StdBoxes ==
  KV("1st_box_center", <<"(89.5N,0.5E)">>) \o SP \o
  KV("2nd_box_center", <<"(89.5N,1.5E)">>) \o SP \o
  KV("last_box_center", <<"(89.5S,359.5E)">>)

SouthFirstBoxes ==
  KV("1st_box_center", <<"(89.5S,0.5E)">>) \o SP \o
  KV("2nd_box_center", <<"(89.5S,1.5E)">>) \o SP \o
  KV("last_box_center", <<"(89.5N,359.5E)">>)

Sentinel == <<"-", "99999", ".", "0">>

\* the header blocks the files of the model start with; trailing blanks
\* stand for the padding up to HEADER_SIZE bytes
HeaderTexts ==
  { KV("title", <<"1", " ", "grid", " ", "daily">>) \o SP \o
      KV("year", <<"1997">>) \o SP \o KV("month", <<"02">>) \o SP \o
      KV("days", <<"1", "-", "2">>) \o SP \o
      KV("missing_value", Sentinel) \o SP \o StdBoxes \o <<" ", " ">>,
    KV("year", <<"1997">>) \o SP \o KV("month", <<"02">>) \o SP \o
      KV("days", <<"1", "-", "1">>) \o SP \o
      KV("missing_value", <<"0">>) \o SP \o SouthFirstBoxes,
    KV("year", <<"1997">>) \o SP \o KV("month", <<"02">>) \o SP \o
      KV("days", <<"1", "-", "2">>) \o SP \o
      KV("1st_box_center", <<"(89.5N,0.5E)">>) \o <<" ">>,
    <<"hello", " ", "world", " ">>,
    KV("year", <<"1997">>) \o SP \o KV("month", <<"02">>),
    KV("month", <<"02">>) \o SP \o KV("days", <<"1", "-", "2">>) \o SP \o
      KV("missing_value", Sentinel),
    KV("year", <<"1997">>) \o SP \o KV("days", <<"1", "-", "2">>),
    KV("year", <<"1997">>) \o SP \o KV("month", <<"02">>) \o SP \o
      KV("days", <<"2">>) \o SP \o KV("missing_value", Sentinel) }

\* headers of whole months: February 1997 declared with its 28 days, and
\* declared with 29
MonthHeaderTexts ==
  { KV("year", <<"1997">>) \o SP \o KV("month", <<"02">>) \o SP \o
      KV("days", <<"1", "-", "28">>) \o SP \o KV("missing_value", Sentinel),
    KV("year", <<"1997">>) \o SP \o KV("month", <<"02">>) \o SP \o
      KV("days", <<"1", "-", "29">>) \o SP \o KV("missing_value", Sentinel) }

\* a header of three days, for files on which a get can leave the stream
\* somewhere else than a running iteration expects it
ThreeDayHeaderTexts ==
  { KV("year", <<"1997">>) \o SP \o KV("month", <<"02">>) \o SP \o
      KV("days", <<"1", "-", "3">>) \o SP \o KV("missing_value", Sentinel) }

\* ---------------------------------------------------------- header parse
Min(S) == CHOOSE x \in S : \A y \in S : x <= y

\* str.rstrip(): drop trailing whitespace
rstrip(s) ==
  LET keep == {n \in 1..Len(s) : \A m \in n..Len(s) : s[m] = " "}
  IN IF keep = {} THEN s ELSE SubSeq(s, 1, Min(keep) - 1)

\* the lookahead (?=(\w+=|$)) at position k of s
Lookahead(s, k) ==
  \/ k = Len(s) + 1
  \/ k + 1 <= Len(s) /\ IsWord(s[k]) /\ s[k + 1] = "="

\* first position j >= i where (\w+)= matches, 0 when there is none
KeyStart(s, i) ==
  LET at == {j \in i..(Len(s) - 1) : IsWord(s[j]) /\ s[j + 1] = "="}
  IN IF at = {} THEN 0 ELSE Min(at)

\* (.*?) ?(?=...) from position v: the first e >= v such that the value
\* s[v..e-1], an optional blank and the lookahead match
ValueEnd(s, v) ==
  Min({e \in v..(Len(s) + 1) :
         Lookahead(s, e) \/ (e <= Len(s) /\ s[e] = " " /\ Lookahead(s, e + 1))})

\* where the match whose value ends before e ends: ' ?' is greedy
MatchEnd(s, e) ==
  IF e <= Len(s) /\ s[e] = " " /\ Lookahead(s, e + 1) THEN e + 1 ELSE e

\* one match: the name at j, the value up to e, then the matches after it
Match(s, j, e, rest) ==
  <<[name |-> s[j], value |-> SubSeq(s, j + 2, e - 1)]>> \o rest[MatchEnd(s, e)]

\* the matches from the first name at j on (none when j = 0)
MatchFrom(s, j, rest) ==
  IF j = 0 THEN <<>> ELSE Match(s, j, ValueEnd(s, j + 2), rest)

\* GPCP_HEADER_RE.findall(header), each match cut to (name, value): scan[i] is
\* the list of the matches found from position i on
findall(s) ==
  LET scan[i \in 1..(Len(s) + 1)] == MatchFrom(s, KeyStart(s, i), scan)
  IN scan[1]

\* read_onedd_headers(fp) once the block is read: the list of pairs
HeaderPairs(b) == findall(rstrip(b))

\* dict(pairs): the last pair of a name wins
HasKey(pairs, k) == \E n \in 1..Len(pairs) : pairs[n].name = k
Lookup(pairs, k) ==
  LET n == CHOOSE m \in 1..Len(pairs) :
             /\ pairs[m].name = k
             /\ \A l \in (m + 1)..Len(pairs) : pairs[l].name # k
  IN pairs[n].value

\* -------------------------------------------------------- typed accessors
\* str.strip() as int() and float() apply it
lstrip(s) ==
  LET drop == {n \in 1..Len(s) : \A m \in 1..n : s[m] = " "}
  IN SubSeq(s, Cardinality(drop) + 1, Len(s))
strip(s) == lstrip(rstrip(s))

\* the decimal words of the header contents and their values
IntTable ==
  [t \in {"1997", "02", "0", "1", "2", "3", "4", "28", "29", "99999"} |->
     CASE t = "1997" -> 1997 [] t = "02" -> 2 [] t = "0" -> 0 [] t = "1" -> 1
       [] t = "2" -> 2 [] t = "3" -> 3 [] t = "4" -> 4 [] t = "28" -> 28
       [] t = "29" -> 29 [] t = "99999" -> 99999]

OK(v) == [err |-> "", val |-> v]
Raise(e) == [err |-> e, val |-> 0]

\* int(str): an optional sign and decimal digits, blanks around them allowed
digits(w) ==
  IF Len(w) = 1 /\ w[1] \in DOMAIN IntTable THEN OK(IntTable[w[1]])
  ELSE IF Len(w) = 2 /\ w[1] = "-" /\ w[2] \in DOMAIN IntTable
       THEN OK(0 - IntTable[w[2]])
  ELSE Raise("ValueError")
int(v) == digits(strip(v))

\* float(str), in tenths: digits, optionally a point and one more digit
decimal(u, sgn) ==
  IF Len(u) = 1 /\ u[1] \in DOMAIN IntTable
    THEN OK(sgn * 10 * IntTable[u[1]])
  ELSE IF Len(u) = 3 /\ u[1] \in DOMAIN IntTable /\ u[2] = "."
          /\ u[3] \in {"0", "1", "2", "3", "4"}
    THEN OK(sgn * (10 * IntTable[u[1]] + IntTable[u[3]]))
  ELSE Raise("ValueError")
signed(w) ==
  IF w # <<>> /\ w[1] = "-" THEN decimal(Tail(w), 0 - 1) ELSE decimal(w, 1)
float(v) == signed(strip(v))

\* str.split('-'): the positions of the separators, and piece n (0-based)
Dashes(s) == {n \in 1..Len(s) : s[n] = "-"}
Piece(s, n) ==
  LET cut == [k \in 0..(Cardinality(Dashes(s)) + 1) |->
                IF k = 0 THEN 0
                ELSE IF k > Cardinality(Dashes(s)) THEN Len(s) + 1
                ELSE CHOOSE d \in Dashes(s) :
                       Cardinality({x \in Dashes(s) : x < d}) = k - 1]
  IN SubSeq(s, cut[n] + 1, cut[n + 1] - 1)

\* the arithmetic of OneDegreeReader.days: int(headers['days'].split('-')[1])
second_piece(v) ==
  IF Dashes(v) = {} THEN Raise("IndexError") ELSE int(Piece(v, 1))
days_of(hs) ==
  IF ~HasKey(hs, "days") THEN Raise("KeyError")
  ELSE second_piece(Lookup(hs, "days"))

year(hs) == IF HasKey(hs, "year") THEN int(Lookup(hs, "year")) ELSE Raise("KeyError")
month(hs) == IF HasKey(hs, "month") THEN int(Lookup(hs, "month")) ELSE Raise("KeyError")
missing_value(hs) ==
  IF HasKey(hs, "missing_value") THEN float(Lookup(hs, "missing_value"))
  ELSE Raise("KeyError")

\* every dict a reader of the model can hold, with its typed accessors
HeaderDicts == {HeaderPairs(b) : b \in HeaderTexts}
MonthHeaderDicts == {HeaderPairs(b) : b \in MonthHeaderTexts}
ThreeDayHeaderDicts == {HeaderPairs(b) : b \in ThreeDayHeaderTexts}
Fields ==
  [hs \in HeaderDicts \cup MonthHeaderDicts \cup ThreeDayHeaderDicts |->
     [days |-> days_of(hs), year |-> year(hs), month |-> month(hs),
      missing_value |-> missing_value(hs)]]

\* the longest month a header declares: files hold up to that many complete
\* records, and clients index from -1 up to it (one past the last day)
Max(S) == CHOOSE x \in S : \A y \in S : y <= x
LongestMonth == Max({Fields[hs].days.val : hs \in HeaderDicts})
LongestWholeMonth == Max({Fields[hs].days.val : hs \in MonthHeaderDicts})
ThreeDays == Max({Fields[hs].days.val : hs \in ThreeDayHeaderDicts})

\* --------------------------------------------------------------- the file
\* the 4-byte reals after the header, in file order and in tenths: the
\* sentinel -99999.0, its neighbour -99998.5 and ordinary amounts
Palette == <<0, -999990, -999985, 250, 12, 7, 1000>>
FlatValue(q) == Palette[(q % Len(Palette)) + 1]

FileLen(n, t) == HEADER_SIZE + n * DAY_SIZE + t

\* file.read(size) at position p: how many bytes it returns
ReadCount(p, size, n, t) ==
  IF p >= FileLen(n, t) THEN 0
  ELSE IF p + size <= FileLen(n, t) THEN size ELSE FileLen(n, t) - p

Seek(off) == [op |-> "seek", at |-> off, n |-> 0]
Read(p, n) == [op |-> "read", at |-> p, n |-> n]

\* read_day(fp) from position p of an open file: the bytes read and, when
\* they are a whole day, the values struct.unpack gives
\* faulty variant: a short string is unpacked as far as it goes
unpack_short(p, got) ==
  [err |-> "", got |-> got,
   raw |-> [c \in 1..(got \div REAL_SIZE) |->
              FlatValue((p - HEADER_SIZE) \div REAL_SIZE + c - 1)]]

unpack(p, got) ==
  [ err |-> IF got = DAY_SIZE THEN "" ELSE "struct.error",
    got |-> got,
    raw |-> IF got = DAY_SIZE
              THEN [c \in 1..MEASUREMENTS_PER_DAY |->
                      FlatValue((p - HEADER_SIZE) \div REAL_SIZE + c - 1)]
              ELSE <<>> ]
read_day(p, n, t) == unpack(p, ReadCount(p, DAY_SIZE, n, t))

\* ------------------------------------------------------------ day objects
Abs(x) == IF x < 0 THEN 0 - x ELSE x

\* numpy.ma.masked_values(x, value) with its defaults rtol=1e-5, atol=1e-8:
\* an element is masked when |x - value| <= atol + rtol * |value|
masked_values(raw, value) ==
  [c \in 1..Len(raw) |->
     [data |-> raw[c],
      mask |-> Abs(raw[c] - value) <= (10 + 1000 * Abs(value)) \div 100000000]]

Plain(raw) == [c \in 1..Len(raw) |-> [data |-> raw[c], mask |-> FALSE]]

IsLeap(y) == (y % 4 = 0 /\ y % 100 # 0) \/ y % 400 = 0
DaysInMonth(y, m) ==
  IF m = 2 THEN (IF IsLeap(y) THEN 29 ELSE 28)
  ELSE IF m \in {4, 6, 9, 11} THEN 30 ELSE 31

\* datetime.datetime(y, m, d)
datetime(y, m, d) ==
  IF y \in 1..9999 /\ m \in 1..12 /\ d \in 1..DaysInMonth(y, m)
  THEN [err |-> "", val |-> <<y, m, d>>]
  ELSE [err |-> "ValueError", val |-> <<>>]

\* date + timedelta(hours=24)
tomorrow(dt) ==
  IF dt[3] < DaysInMonth(dt[1], dt[2]) THEN <<dt[1], dt[2], dt[3] + 1>>
  ELSE IF dt[2] < 12 THEN <<dt[1], dt[2] + 1, 1>>
  ELSE <<dt[1] + 1, 1, 1>>

\* date + n*timedelta(hours=24)
plus_days(dt, n) ==
  LET step[k \in 0..n] == IF k = 0 THEN dt ELSE tomorrow(step[k - 1])
  IN step[n]

\* date.toordinal(): days since 0001-01-01, that day being 1
toordinal(dt) ==
  LET before[m \in 1..12] ==
        IF m = 1 THEN 0 ELSE before[m - 1] + DaysInMonth(dt[1], m - 1)
      y == dt[1] - 1
  IN 365 * y + (y \div 4) - (y \div 100) + (y \div 400) + before[dt[2]] + dt[3]

\* netCDF4.date2num(date, "hours since 1990-01-01 00:00:00.0", "gregorian")
date2num(dt) == 24 * (toordinal(dt) - toordinal(<<1990, 1, 1>>))

NoDate == <<>>
DayGrid(d, date, readings) == [day |-> d, date |-> date, readings |-> readings]
Yield(g) == [err |-> "", grids |-> <<g>>]
Fail(e) == [err |-> e, grids |-> <<>>]

\* gpcp/onedd.py, OneDegreeReader.reading after read_day returned raw
masked(raw, mv) ==
  IF mv.err # "" THEN Fail(mv.err)
  ELSE Yield(DayGrid(0, NoDate, masked_values(raw, mv.val)))
reading(hs, raw) == masked(raw, Fields[hs].missing_value)

\* onedd.py, OneDegreeDay.__init__
Dated(d, dt, raw) ==
  IF dt.err # "" THEN Fail(dt.err) ELSE Yield(DayGrid(d, dt.val, Plain(raw)))
DayOf(y, m, d, raw) ==
  IF y.err # "" THEN Fail(y.err)
  ELSE IF m.err # "" THEN Fail(m.err)
  ELSE Dated(d, datetime(y.val, m.val, d), raw)
OneDegreeDay(hs, d, raw) == DayOf(Fields[hs].year, Fields[hs].month, d, raw)

\* gpcp.py, OneDegreeDay.__init__: self.data is bound to the raw values, the
\* masked list is bound to the local name only
Unmasked(d, raw, mv) ==
  IF raw # <<>> /\ mv.err # "" THEN Fail(mv.err)
  ELSE Yield(DayGrid(d, NoDate, Plain(raw)))
OldOneDegreeDay(hs, d, raw) == Unmasked(d, raw, Fields[hs].missing_value)

\* the day object each module builds from the values of day d
MakeDay(im, hs, d, raw) ==
  CASE im = "gpcp.onedd" -> reading(hs, raw)
    [] im = "onedd" -> OneDegreeDay(hs, d, raw)
    [] im = "gpcp" -> OldOneDegreeDay(hs, d, raw)

\* ------------------------------------------------------------------ state
VARIABLES
  impl,        \* the module the client imported
  block,       \* the first HEADER_SIZE bytes of the file, as tokens
  nrec,        \* complete day records after the header
  tail,        \* bytes of a cut-off record after them
  pos,         \* fp's position
  closed,      \* fp.closed
  state,       \* "new", "open" (a reader exists) or "failed" (__init__ raised)
  headers,     \* self.headers, as the list of pairs dict() was given
  days_cache,  \* self._days: <<>> for None, <<n>> once computed
  iters,       \* the generator objects reader.__iter__() returned
  cgens,       \* the generator objects reader.coordinate_iterator() returned
  axes,        \* NetcdfCreator's latitudes[:] and longitudes[:], <<>> if unset
  last         \* the call that ended last: its outcome and its stream calls

vars ==
  <<impl, block, nrec, tail, pos, closed, state, headers, days_cache, iters,
    cgens, axes, last>>

file == <<impl, block, nrec, tail>>
coords == <<cgens, axes>>

\* moved: the call left fp at another position than it found it
Call(op, key, err, grids, log, after) ==
  [op |-> op, key |-> key, err |-> err, grids |-> grids, log |-> log,
   moved |-> after # pos, rows |-> <<>>]

\* fp is at the start of the file and no reader exists yet
Fresh ==
  /\ pos = 0
  /\ closed = FALSE
  /\ state = "new"
  /\ headers = <<>>
  /\ days_cache = <<>>
  /\ iters = <<>>
  /\ cgens = <<>>
  /\ axes = <<>>
  /\ last = Call("open", 0, "", <<>>, <<>>, 0)

Init ==
  /\ impl \in Impls
  /\ block \in HeaderTexts
  /\ nrec \in 0..LongestMonth
  /\ tail \in {0, REAL_SIZE}
  /\ Fresh

\* ------------------------------------------------------------ construction
\* faulty variant: the check forgets the last field of its tuple
check_headers_two(hs) ==
  IF \A k \in {"year", "month"} : HasKey(hs, k) THEN "" ELSE "KeyError"

\* _check_headers: raises when one of year, month, days is absent
check_headers(hs) ==
  IF \A k \in {"year", "month", "days"} : HasKey(hs, k) THEN "" ELSE "KeyError"

\* what __init__ raises, "" when it returns a reader: gpcp/onedd.py refuses an
\* empty list of pairs and checks the fields, the older modules do neither
init_error(im, hs) ==
  IF im = "gpcp.onedd"
  THEN (IF hs = <<>> THEN "IOError" ELSE check_headers(hs))
  ELSE ""

\* reader(fp): read_onedd_headers seeks to 0 and reads the block, then the
\* checks of the module run
Construct ==
  /\ state = "new"
  /\ \E hs \in {HeaderPairs(block)} :
     \E e \in {init_error(impl, hs)} :
        /\ state' = IF e = "" THEN "open" ELSE "failed"
        /\ headers' = IF e = "" THEN hs ELSE <<>>
        /\ last' = Call("init", 0, e, <<>>, <<Seek(0), Read(0, HEADER_SIZE)>>,
                        HEADER_SIZE)
  /\ pos' = HEADER_SIZE
  /\ UNCHANGED <<coords, file, closed, days_cache, iters>>

\* ------------------------------------------------------------------- days
\* the days property: the cached value, or d, the header's, cached when it
\* parses
days_from(cache, d) ==
  IF cache # <<>>
  THEN [err |-> "", val |-> cache[1], cache |-> cache]
  ELSE [err |-> d.err, val |-> d.val,
        cache |-> IF d.err = "" THEN <<d.val>> ELSE <<>>]

days == days_from(days_cache, Fields[headers].days)

\* a suspended generator under which another call moved or closed the stream
\* is marked dirty
Disturb(its, log, closes) ==
  [g \in 1..Len(its) |->
     IF its[g].st = "run" /\ (log # <<>> \/ closes)
     THEN [its[g] EXCEPT !.dirty = TRUE] ELSE its[g]]

\* the client reads reader.days
Days ==
  /\ state = "open"
  /\ \E d \in {days} :
       /\ days_cache' = d.cache
       /\ last' = Call("days", d.val, d.err, <<>>, <<>>, pos)
  /\ UNCHANGED <<coords, file, pos, closed, state, headers, iters>>

\* -------------------------------------------------------------- __getitem__
\* faulty variant: the offset is taken from the 1-based day instead of the key
seek_pos_of_day(key) == HEADER_SIZE + (DAY_SIZE * (key + 1))

seek_pos(key) == HEADER_SIZE + (DAY_SIZE * key)

\* faulty variant: the upper bound is tested with <=
in_range_inclusive(key, d) ==
  IF key < 0 THEN [err |-> "IndexError", cache |-> days_cache]
  ELSE IF impl = "gpcp"
    THEN [err |-> IF days_cache # <<>> /\ key <= days_cache[1]
                    THEN "" ELSE "IndexError",
          cache |-> days_cache]
  ELSE [err |-> IF d.err # "" THEN d.err
                ELSE IF key <= d.val THEN "" ELSE "IndexError",
        cache |-> d.cache]

\* the bounds test of __getitem__: gpcp.py compares with self._days, which is
\* None until the days property ran (an int is never below None), the later
\* modules with self.days (d), read only when key >= 0
in_range(key, d) ==
  IF key < 0 THEN [err |-> "IndexError", cache |-> days_cache]
  ELSE IF impl = "gpcp"
    THEN [err |-> IF days_cache # <<>> /\ key < days_cache[1]
                    THEN "" ELSE "IndexError",
          cache |-> days_cache]
  ELSE [err |-> IF d.err # "" THEN d.err
                ELSE IF key < d.val THEN "" ELSE "IndexError",
        cache |-> d.cache]

Outcome(err, grids, log, p, cache) ==
  [err |-> err, grids |-> grids, log |-> log, pos |-> p, cache |-> cache]

\* the day read_day gave as rd, built into the module's day object
day_of(d, rd) ==
  IF rd.err # "" THEN Fail(rd.err) ELSE MakeDay(impl, headers, d, rd.raw)

\* faulty variant: the stream is read without regard to fp.closed
getitem_at_any(sp, r, rd, day) ==
  IF r.err # "" THEN Outcome(r.err, <<>>, <<>>, pos, r.cache)
  ELSE Outcome(day.err, day.grids, <<Seek(sp), Read(sp, rd.got)>>,
               sp + rd.got, r.cache)

\* __getitem__ after the bounds test r: seek to the day, read it (rd), build
\* the day object (day)
getitem_at(sp, r, rd, day) ==
  IF r.err # "" THEN Outcome(r.err, <<>>, <<>>, pos, r.cache)
  ELSE IF closed
    THEN Outcome("ValueError: closed file", <<>>, <<>>, pos, r.cache)
  ELSE Outcome(day.err, day.grids, <<Seek(sp), Read(sp, rd.got)>>,
               sp + rd.got, r.cache)

getitem(key) ==
  getitem_at(seek_pos(key), in_range(key, days),
             read_day(seek_pos(key), nrec, tail),
             day_of(key + 1, read_day(seek_pos(key), nrec, tail)))

Get(key) ==
  /\ state = "open"
  /\ \E r \in {getitem(key)} :
     /\ pos' = r.pos
     /\ days_cache' = r.cache
     /\ last' = Call("get", key, r.err, r.grids, r.log, r.pos)
     /\ iters' = Disturb(iters, r.log, FALSE)
  /\ UNCHANGED <<coords, file, closed, state, headers>>

\* ----------------------------------------------------------------- __iter__
\* iter(reader): a generator object; none of the body runs yet.  n is the
\* xrange bound, cnt the days yielded so far.  A generator stepped after
\* another call moved or closed the stream under it (dirty) is mixed; out and
\* log, the days it yielded and its stream calls, are kept until then
NewGen ==
  [st |-> "new", n |-> 0, cnt |-> 0, out |-> <<>>, log |-> <<>>,
   dirty |-> FALSE, mixed |-> FALSE]

Iterate ==
  /\ state = "open"
  /\ Len(iters) < MaxIters
  /\ iters' = Append(iters, NewGen)
  /\ last' = Call("iter", Len(iters) + 1, "", <<>>, <<>>, pos)
  /\ UNCHANGED <<coords, file, pos, closed, state, headers, days_cache>>

Ended(g, st, log) == [g EXCEPT !.st = st, !.log = @ \o log]
Yielded(g, grids, log) ==
  [g EXCEPT !.st = "run", !.cnt = @ + 1, !.out = @ \o grids, !.log = @ \o log]

Step(gen, err, grids, log, p) ==
  [gen |-> gen, err |-> err, grids |-> grids, log |-> log, pos |-> p]

\* one pass of the for loop from position p, after the stream calls in log:
\* the generator is exhausted ("done"), or reads a day (rd) and raises
\* ("failed") or yields its day object (day)
loop_at(g, p, log, rd, day) ==
  IF g.cnt >= g.n
    THEN Step(Ended(g, "done", log), "StopIteration", <<>>, log, p)
  ELSE IF closed
    THEN Step(Ended(g, "failed", log), "ValueError: closed file", <<>>, log, p)
  ELSE IF day.err # ""
    THEN Step(Ended(g, "failed", log \o <<Read(p, rd.got)>>), day.err, <<>>,
              log \o <<Read(p, rd.got)>>, p + rd.got)
  ELSE Step(Yielded(g, day.grids, log \o <<Read(p, rd.got)>>), "", day.grids,
            log \o <<Read(p, rd.got)>>, p + rd.got)

loop_step(g, p, log) ==
  loop_at(g, p, log, read_day(p, nrec, tail),
          day_of(g.cnt + 1, read_day(p, nrec, tail)))

\* next(gen): a finished generator raises StopIteration; a suspended one runs
\* the loop on from fp's position (resumed); a new one seeks to HEADER_SIZE,
\* takes xrange(self.days) (d) and enters the loop (started)
next_of(g, d, resumed, started) ==
  IF g.st \in {"done", "failed"}
    THEN [cache |-> days_cache] @@ Step(g, "StopIteration", <<>>, <<>>, pos)
  ELSE IF g.st = "run"
    THEN [cache |-> days_cache] @@ resumed
  ELSE IF closed
    THEN [cache |-> days_cache]
           @@ Step(Ended(g, "failed", <<>>), "ValueError: closed file", <<>>,
                   <<>>, pos)
  ELSE IF d.err # ""
    THEN [cache |-> d.cache]
           @@ Step(Ended(g, "failed", <<Seek(HEADER_SIZE)>>), d.err, <<>>,
                   <<Seek(HEADER_SIZE)>>, HEADER_SIZE)
  ELSE [cache |-> d.cache] @@ started

\* faulty variant: a suspended generator seeks to its own next day first
iter_next_own_day(g) ==
  next_of(g, days,
          loop_step(g, HEADER_SIZE + g.cnt * DAY_SIZE,
                    <<Seek(HEADER_SIZE + g.cnt * DAY_SIZE)>>),
          loop_step([g EXCEPT !.n = days.val], HEADER_SIZE, <<Seek(HEADER_SIZE)>>))

\* faulty variant: a new generator reads on from wherever fp stands
iter_next_no_seek(g) ==
  next_of(g, days, loop_step(g, pos, <<>>),
          loop_step([g EXCEPT !.n = days.val], pos, <<>>))

\* faulty variant: the loop runs over xrange(self.days - 1)
iter_next_short(g) ==
  next_of(g, days, loop_step(g, pos, <<>>),
          loop_step([g EXCEPT !.n = days.val - 1], HEADER_SIZE,
                    <<Seek(HEADER_SIZE)>>))

iter_next(g) ==
  next_of(g, days, loop_step(g, pos, <<>>),
          loop_step([g EXCEPT !.n = days.val], HEADER_SIZE, <<Seek(HEADER_SIZE)>>))

\* what is recorded of generator g after its step, was being what it was
Recorded(g, was) ==
  IF was.dirty \/ was.mixed
  THEN [g EXCEPT !.out = <<>>, !.log = <<>>, !.dirty = FALSE, !.mixed = TRUE]
  ELSE g

IterNext(k) ==
  /\ state = "open"
  /\ k \in 1..Len(iters)
  /\ \E r \in {iter_next(iters[k])} :
        /\ pos' = r.pos
        /\ days_cache' = r.cache
        /\ last' = Call("next", k, r.err, r.grids, r.log, r.pos)
        /\ iters' = [Disturb(iters, r.log, FALSE) EXCEPT ![k] = Recorded(r.gen, iters[k])]
  /\ UNCHANGED <<coords, file, closed, state, headers>>

\* -------------------------------------------------------------------- close
Close ==
  /\ state = "open"
  /\ closed' = TRUE
  /\ last' = Call("close", 0, "", <<>>, <<>>, pos)
  /\ iters' = Disturb(iters, <<>>, TRUE)
  /\ UNCHANGED <<coords, file, pos, state, headers, days_cache>>

\* ------------------------------------------------------ coordinate_iterator
\* faulty variant: latitude and longitude taken from the wrong loop variable
coordinate_crossed(lat, lon) == <<895 - 10 * lon, 5 + 10 * lat>>

\* the pair the loop body yields: (89.5-lat, 0.5+lon), in tenths
coordinate(lat, lon) == <<895 - 10 * lat, 5 + 10 * lon>>

\* a generator object before its first next(): both loops at their start
NewCoordGen == [lat |-> 0, lon |-> 0, out |-> <<>>, done |-> FALSE]

\* reader.coordinate_iterator(): returns a new generator, reads no header
Coordinates ==
  /\ state = "open"
  /\ impl \in {"onedd", "gpcp"}
  /\ Len(cgens) < MaxCoordGens
  /\ cgens' = Append(cgens, NewCoordGen)
  /\ last' = Call("coordinate_iterator", Len(cgens) + 1, "", <<>>, <<>>, pos)
  /\ UNCHANGED <<file, pos, closed, state, headers, days_cache, iters, axes>>

\* for lat in xrange(180): for lon in xrange(360): yield ...
coord_advance(g, pair) ==
  IF g.lon + 1 < LonCount
    THEN [g EXCEPT !.lon = @ + 1, !.out = Append(@, pair)]
    ELSE [g EXCEPT !.lat = @ + 1, !.lon = 0, !.out = Append(@, pair)]

coord_next(g) ==
  IF g.lat < LatCount
    THEN [gen |-> coord_advance(g, coordinate(g.lat, g.lon)), err |-> "",
          rows |-> <<coordinate(g.lat, g.lon)>>]
    ELSE [gen |-> [g EXCEPT !.done = TRUE], err |-> "StopIteration",
          rows |-> <<>>]

\* next() on the k-th coordinate generator
CoordNext(k) ==
  /\ state = "open"
  /\ k \in 1..Len(cgens)
  /\ \E r \in {coord_next(cgens[k])} :
        /\ cgens' = [cgens EXCEPT ![k] = r.gen]
        /\ last' = [Call("coordinate_next", k, r.err, <<>>, <<>>, pos)
                      EXCEPT !.rows = r.rows]
  /\ UNCHANGED <<file, pos, closed, state, headers, days_cache, iters, axes>>

\* what list(reader.coordinate_iterator()) holds
coordinate_list ==
  [q \in 1..(LatCount * LonCount) |->
     coordinate((q - 1) \div LonCount, (q - 1) % LonCount)]

\* np.arange(start, stop, step), in tenths
arange(start, stop, step) ==
  [i \in 1..((stop - start + step - (IF step > 0 THEN 1 ELSE 0 - 1)) \div step)
     |-> start + (i - 1) * step]

\* NetcdfCreator.coordinate_writer
CoordinateWriter ==
  /\ state = "open"
  /\ impl = "gpcp.onedd"
  /\ axes = <<>>
  /\ axes' = [lat |-> arange(895, 895 - 10 * LatCount, 0 - 10),
              lon |-> arange(5, 5 + 10 * LonCount, 10)]
  /\ last' = Call("coordinate_writer", 0, "", <<>>, <<>>, pos)
  /\ UNCHANGED <<file, pos, closed, state, headers, days_cache, iters, cgens>>

\* ---------------------------------------------------------- time_coordinate
\* the list comprehension: range(self.reader.days) is taken first (d), year
\* and month are read for each element
time_dates(d, y, m, first) ==
  IF d.err # "" THEN [err |-> d.err, rows |-> <<>>]
  ELSE IF d.val <= 0 THEN [err |-> "", rows |-> <<>>]
  ELSE IF y.err # "" THEN [err |-> y.err, rows |-> <<>>]
  ELSE IF m.err # "" THEN [err |-> m.err, rows |-> <<>>]
  ELSE IF first.err # "" THEN [err |-> first.err, rows |-> <<>>]
  ELSE [err |-> "",
        rows |-> [n \in 1..d.val |->
                    [date |-> plus_days(first.val, n - 1),
                     hours |-> date2num(plus_days(first.val, n - 1))]]]

time_coordinate ==
  time_dates(days, Fields[headers].year, Fields[headers].month,
             datetime(Fields[headers].year.val, Fields[headers].month.val, 1))

\* NetcdfCreator.time_coordinate; last.rows is what self.times[:] received
TimeCoordinate ==
  /\ state = "open"
  /\ impl = "gpcp.onedd"
  /\ \E r \in {time_coordinate} :
        /\ days_cache' = days.cache
        /\ last' = [Call("time_coordinate", 0, r.err, <<>>, <<>>, pos)
                      EXCEPT !.rows = r.rows]
  /\ UNCHANGED <<coords, file, pos, closed, state, headers, iters>>

\* ------------------------------------------------------------------- to_tsv
Digit == <<"0", "1", "2", "3", "4", "5", "6", "7", "8", "9">>
D2(n) == <<Digit[(n \div 10) + 1], Digit[(n % 10) + 1]>>
D4(n) == D2(n \div 100) \o D2(n % 100)
\* date.strftime('%Y-%m-%d')
strftime(dt) == D4(dt[1]) \o <<"-">> \o D2(dt[2]) \o <<"-">> \o D2(dt[3])

TsvHeader == <<"date", "latitude", "longitude", "precip_mm">>

\* OneDegreeDay.__iter__: izip(coordinate_iterator(), readings)
day_iter(day) ==
  [c \in 1..Min({Len(coordinate_list), Len(day.readings)}) |->
     <<coordinate_list[c], day.readings[c].data>>]

\* faulty variant: the row is written as (date, lon, lat, precip)
tsv_row_lon_lat(day, item) ==
  <<strftime(day.date), item[1][2], item[1][1], item[2]>>

\* the tuple handed to writer.writerow for one element of a day
tsv_row(day, item) == <<strftime(day.date), item[1][1], item[1][2], item[2]>>

\* the rows of one day
day_rows(day) == [c \in 1..Len(day_iter(day)) |-> tsv_row(day, day_iter(day)[c])]

\* what 'for day in self' goes through: the i-th read starts where the one
\* before it ended, the first at HEADER_SIZE
tsv_days(n) ==
  [i \in 1..n |->
     [rd |-> read_day(HEADER_SIZE + (i - 1) * DAY_SIZE, nrec, tail),
      day |-> day_of(i, read_day(HEADER_SIZE + (i - 1) * DAY_SIZE, nrec, tail))]]

\* strftime refuses years before 1900
row_error(d) ==
  IF d.day.err # "" THEN d.day.err
  ELSE IF d.day.grids[1].date[1] < 1900 THEN "ValueError" ELSE ""

Written(err, rows, log, p, cache) ==
  [err |-> err, rows |-> rows, log |-> log, pos |-> p, cache |-> cache]

\* the loop over the days, stopping at the first day that raises
tsv_loop(hdr, dd, stop, cache) ==
  Written(IF stop <= Len(dd) THEN row_error(dd[stop]) ELSE "",
          hdr \o [q \in 1..((stop - 1) * MEASUREMENTS_PER_DAY) |->
                    day_rows(dd[((q - 1) \div MEASUREMENTS_PER_DAY) + 1].day.grids[1])
                      [((q - 1) % MEASUREMENTS_PER_DAY) + 1]],
          <<Seek(HEADER_SIZE)>> \o
            [i \in 1..Min({stop, Len(dd)}) |->
               Read(HEADER_SIZE + (i - 1) * DAY_SIZE, dd[i].rd.got)],
          IF dd = <<>> THEN HEADER_SIZE
          ELSE HEADER_SIZE + (Min({stop, Len(dd)}) - 1) * DAY_SIZE
                 + dd[Min({stop, Len(dd)})].rd.got,
          cache)

first_bad(dd) == Min({i \in 1..(Len(dd) + 1) : i > Len(dd) \/ row_error(dd[i]) # ""})

tsv_write(hdr, d, dd) ==
  IF closed THEN Written("ValueError: closed file", hdr, <<>>, pos, days_cache)
  ELSE IF d.err # "" THEN Written(d.err, hdr, <<Seek(HEADER_SIZE)>>, HEADER_SIZE, d.cache)
  ELSE tsv_loop(hdr, dd, first_bad(dd), d.cache)

to_tsv(h) ==
  tsv_write(IF h THEN <<TsvHeader>> ELSE <<>>, days,
            IF days.err = "" THEN tsv_days(days.val) ELSE <<>>)

\* reader.to_tsv(outf, headers=h) of onedd.py; last.rows is what outf received
ToTsv(h) ==
  /\ state = "open"
  /\ impl = "onedd"
  /\ \E r \in {to_tsv(h)} :
        /\ pos' = r.pos
        /\ days_cache' = r.cache
        /\ last' = [Call("to_tsv", IF h THEN 1 ELSE 0, r.err, <<>>, r.log, r.pos)
                      EXCEPT !.rows = r.rows]
        /\ iters' = Disturb(iters, r.log, FALSE)
  /\ UNCHANGED <<coords, file, closed, state, headers>>

Next ==
  \/ Construct
  \/ Days
  \/ \E key \in (0 - 1)..LongestMonth : Get(key)
  \/ Iterate
  \/ \E k \in 1..MaxIters : IterNext(k)
  \/ \E h \in BOOLEAN : ToTsv(h)
  \/ Close

Spec == Init /\ [][Next]_vars

\* the reader's coordinate side on its own: the generators of
\* coordinate_iterator and the axes of the netCDF writer
NextCoord ==
  \/ Construct
  \/ Coordinates
  \/ \E k \in 1..MaxCoordGens : CoordNext(k)
  \/ CoordinateWriter
  \/ Close

\* no coordinate operation reads the file, so its records are left out here
InitCoord == Init /\ nrec = 0 /\ tail = 0

SpecCoord == InitCoord /\ [][NextCoord]_vars

\* the reader on files of a whole month, each holding as many complete
\* records as its header declares days
InitTime ==
  /\ impl \in Impls
  /\ block \in MonthHeaderTexts
  /\ nrec \in {Fields[HeaderPairs(block)].days.val}
  /\ tail = 0
  /\ Fresh

NextTime ==
  \/ Construct
  \/ Days
  \/ \E key \in (0 - 1)..LongestWholeMonth : Get(key)
  \/ \E h \in BOOLEAN : ToTsv(h)
  \/ TimeCoordinate
  \/ Close

SpecTime == InitTime /\ [][NextTime]_vars

\* the reader on three-day files that hold the three records, or one more:
\* gets and generators sharing fp
InitShared ==
  /\ impl \in Impls
  /\ block \in ThreeDayHeaderTexts
  /\ nrec \in {ThreeDays, ThreeDays + 1}
  /\ tail = 0
  /\ Fresh

NextShared ==
  \/ Construct
  \/ Days
  \/ \E key \in (0 - 1)..ThreeDays : Get(key)
  \/ Iterate
  \/ \E k \in 1..MaxIters : IterNext(k)
  \/ Close

SpecShared == InitShared /\ [][NextShared]_vars

\* ------------------------------------------------------------------ claims
\* day_count() of the reader: the end of the header's days field
DaysOK == state = "open" /\ Fields[headers].days.err = ""
DayCount == Fields[headers].days.val

\* the name k is followed by '=' somewhere in the header block
Declared(k) == \E i \in 1..(Len(block) - 1) : block[i] = k /\ block[i + 1] = "="

\* C1: on an open reader of gpcp/onedd.py or onedd.py, get(index) with
\* 0 <= index < day_count() makes exactly two stream calls, whatever ran
\* before: a seek to HEADER_SIZE + index * DAY_SIZE, then one read there.
C1_GetSeeksToDayOffset ==
  ( /\ DaysOK /\ ~closed /\ impl \in {"gpcp.onedd", "onedd"}
    /\ last.op = "get" /\ 0 <= last.key /\ last.key < DayCount )
  => /\ Len(last.log) = 2
     /\ last.log[1] = [op |-> "seek", at |-> HEADER_SIZE + last.key * DAY_SIZE,
                       n |-> 0]
     /\ last.log[2].op = "read"
     /\ last.log[2].at = HEADER_SIZE + last.key * DAY_SIZE

\* C1 witness: get(1) returned a day after an iteration was abandoned at its
\* first element
C1_Witness ==
  /\ DaysOK /\ ~closed /\ impl = "gpcp.onedd"
  /\ last.op = "get" /\ last.key = 1 /\ last.err = "" /\ Len(last.grids) = 1
  /\ \E k \in 1..Len(iters) : iters[k].st = "run" /\ iters[k].cnt = 1

\* C2: get(index) with index < 0 or index >= day_count() raises IndexError,
\* returns no day, makes no stream call and leaves fp where it was.
C2_OutOfRangeTouchesNothing ==
  ( /\ DaysOK /\ last.op = "get"
    /\ (last.key < 0 \/ last.key >= DayCount) )
  => /\ last.err = "IndexError"
     /\ last.grids = <<>>
     /\ last.log = <<>>
     /\ ~last.moved

\* C2 witness: get(day_count()) failed on a reader whose stream an earlier
\* call had moved past the first record
C2_Witness ==
  /\ DaysOK /\ impl = "gpcp.onedd" /\ ~closed
  /\ last.op = "get" /\ last.key = DayCount /\ last.err = "IndexError"
  /\ pos > HEADER_SIZE

\* C3: a generator that ran to exhaustion with no other call moving the
\* stream between its steps yielded day_count() days, the i-th being what
\* get(i) returns, with one seek to HEADER_SIZE and then day_count() reads of
\* DAY_SIZE bytes, each starting where the one before ended.
C3_IterateIsGetInOrder ==
  \A k \in 1..Len(iters) :
    (iters[k].st = "done" /\ ~iters[k].mixed /\ ~closed) =>
      /\ DaysOK
      /\ iters[k].cnt = DayCount
      /\ Len(iters[k].out) = DayCount
      /\ \A i \in 1..DayCount :
           /\ getitem(i - 1).err = ""
           /\ getitem(i - 1).grids = <<iters[k].out[i]>>
      /\ iters[k].log =
           <<Seek(HEADER_SIZE)>> \o
           [i \in 1..DayCount |->
              [op |-> "read", at |-> HEADER_SIZE + (i - 1) * DAY_SIZE,
               n |-> DAY_SIZE]]

\* C3 witness: a generator was run to exhaustion over two days
C3_Witness ==
  \E k \in 1..Len(iters) :
    /\ iters[k].st = "done" /\ ~iters[k].mixed /\ ~closed
    /\ iters[k].cnt = 2 /\ Len(iters[k].out) = 2

IsPrefix(a, b) == Len(a) <= Len(b) /\ SubSeq(b, 1, Len(a)) = a

\* C4: any two generators of one reader that were each stepped without
\* another call moving the stream between their steps yielded the same days
\* as far as they went (equal sequences when both ran to exhaustion), whatever
\* was called between them, and each began with a seek to HEADER_SIZE
\* followed by its first read at HEADER_SIZE.
C4_IterateRestarts ==
  /\ \A a, b \in 1..Len(iters) :
       (~iters[a].mixed /\ ~iters[b].mixed /\ iters[a].cnt <= iters[b].cnt) =>
         /\ IsPrefix(iters[a].out, iters[b].out)
         /\ (iters[a].st = "done" /\ iters[b].st = "done"
               => iters[a].out = iters[b].out)
  /\ \A k \in 1..Len(iters) :
       (~iters[k].mixed /\ iters[k].st # "new" /\ iters[k].log # <<>>) =>
         /\ iters[k].log[1] = [op |-> "seek", at |-> HEADER_SIZE, n |-> 0]
         /\ Len(iters[k].log) >= 2 =>
              iters[k].log[2].op = "read" /\ iters[k].log[2].at = HEADER_SIZE

\* C4 witness: the first generator was abandoned after one day and the stream
\* moved under it; the second one then ran to exhaustion over two days
C4_Witness ==
  /\ Len(iters) = 2
  /\ iters[1].st = "run" /\ iters[1].cnt = 1 /\ iters[1].dirty /\ ~iters[1].mixed
  /\ iters[2].st = "done" /\ iters[2].cnt = 2 /\ ~iters[2].mixed

\* C7: with gpcp/onedd.py, when the header block holds no name=value pair or
\* does not declare one of year, month, days, reader(fp) raises: no reader
\* exists afterwards, and the only stream calls made are the seek to 0 and
\* the read of the HEADER_SIZE header bytes.
C7_ConstructionFailsFast ==
  ( /\ impl = "gpcp.onedd" /\ state # "new"
    /\ \E k \in {"year", "month", "days"} : ~Declared(k) )
  => /\ state = "failed"
     /\ last.op = "init" /\ last.err \in {"IOError", "KeyError"}
     /\ last.log = <<Seek(0), Read(0, HEADER_SIZE)>>
     /\ pos = HEADER_SIZE
     /\ iters = <<>> /\ days_cache = <<>>

\* C7 witness: a block that declares year and month but not days was refused
C7_Witness ==
  /\ impl = "gpcp.onedd" /\ state = "failed" /\ last.err = "KeyError"
  /\ Declared("year") /\ Declared("month") /\ ~Declared("days")

ClosedError == "ValueError: closed file"

\* what holds of the call that ended last, once fp is closed
C5_AfterClose ==
  closed =>
    /\ last.grids = <<>>
    /\ last.op = "get" =>
         /\ last.err # "" /\ last.log = <<>> /\ ~last.moved
         /\ (DaysOK /\ impl # "gpcp" /\ 0 <= last.key /\ last.key < DayCount)
              => last.err = ClosedError
         /\ (DaysOK /\ (last.key < 0 \/ last.key >= DayCount))
              => last.err = "IndexError"
    /\ last.op = "iter" => last.err = "" /\ iters[last.key].st = "new"
    /\ last.op = "next" =>
         /\ last.log = <<>> /\ ~last.moved
         /\ last.err \in {ClosedError, "StopIteration"}
         /\ last.err = ClosedError => iters[last.key].st = "failed"
         /\ last.err = "StopIteration" =>
              \/ iters[last.key].st = "failed"
              \/ iters[last.key].st = "done" /\ iters[last.key].cnt = iters[last.key].n
    /\ last.op = "to_tsv" =>
         /\ last.err = ClosedError /\ last.log = <<>> /\ ~last.moved
         /\ last.rows = IF last.key = 1 THEN <<TsvHeader>> ELSE <<>>

\* C5 (as amended): close() is final, no call made after it returns a day or
\* touches the stream, and every call that would reach the stream raises the
\* closed-file ValueError: get with an index in range, next() on a generator
\* that has not finished, to_tsv. get with an index out of range raises
\* IndexError, __iter__ still returns a generator (which raises at its first
\* next()), and next() on a finished generator raises StopIteration.
C5_ClosedIsFinal == [](C5_AfterClose) /\ [][closed => closed']_vars

\* C5 witness: get(0) on a closed reader with two days raised the closed-file
\* error
C5_Witness ==
  /\ closed /\ DaysOK /\ impl = "gpcp.onedd" /\ DayCount = 2 /\ nrec = 2
  /\ last.op = "get" /\ last.key = 0 /\ last.err = ClosedError

\* C5 (as claimed): once closed, every get, every creation and every step of
\* a generator and every to_tsv fails with the closed-file error.
C5_EveryCallFailsClosed ==
  (closed /\ last.op \in {"get", "iter", "next", "to_tsv"})
    => last.err = ClosedError

\* C6 (as claimed): in every day returned by get or yielded by a generator, a
\* reading is masked if and only if its raw value equals missing_value
\* exactly.
C6_MaskedIffExactlyMissing ==
  ( /\ state = "open" /\ impl \in {"gpcp.onedd", "gpcp"}
    /\ last.op \in {"get", "next"}
    /\ Fields[headers].missing_value.err = "" )
  => \A i \in 1..Len(last.grids) :
       \A c \in 1..Len(last.grids[i].readings) :
         last.grids[i].readings[c].mask
           <=> (last.grids[i].readings[c].data = Fields[headers].missing_value.val)

BoxNames == {"1st_box_center", "2nd_box_center", "last_box_center"}
ExpectedBox ==
  [k \in BoxNames |->
     CASE k = "1st_box_center" -> <<"(89.5N,0.5E)">>
       [] k = "2nd_box_center" -> <<"(89.5N,1.5E)">>
       [] k = "last_box_center" -> <<"(89.5S,359.5E)">>]
BoxesDiffer ==
  /\ state = "open"
  /\ \E k \in BoxNames : HasKey(headers, k) /\ Lookup(headers, k) # ExpectedBox[k]

\* C8 (as claimed): when a box-center header differs from the expected
\* value, coordinate_iterator and its generators fail with a format error
\* and no generator ever yields a coordinate.
C8_OtherBoxCentersRefused ==
  BoxesDiffer =>
    /\ \A k \in 1..Len(cgens) : cgens[k].out = <<>>
    /\ last.op \in {"coordinate_iterator", "coordinate_next"}
         => last.err = "FormatError"

\* C9: whatever other generators exist, a coordinate generator yields at most
\* LatCount * LonCount pairs (180 * 360 in the source), all of them by the
\* time it stops, pairwise distinct, the one at 0-based position p being
\* (89.5 - p div LonCount, 0.5 + p mod LonCount); the netCDF axes hold the
\* same latitudes 89.5 downwards and longitudes 0.5 upwards.
C9_CoordinatesRowMajor ==
  /\ \A k \in 1..Len(cgens) :
       /\ Len(cgens[k].out) <= LatCount * LonCount
       /\ cgens[k].done => Len(cgens[k].out) = LatCount * LonCount
       /\ \A q \in 1..Len(cgens[k].out) :
            cgens[k].out[q] = <<895 - 10 * ((q - 1) \div LonCount),
                                5 + 10 * ((q - 1) % LonCount)>>
       /\ \A q1, q2 \in 1..Len(cgens[k].out) :
            q1 # q2 => cgens[k].out[q1] # cgens[k].out[q2]
  /\ axes # <<>> =>
       /\ axes.lat = [i \in 1..LatCount |-> 895 - 10 * (i - 1)]
       /\ axes.lon = [j \in 1..LonCount |-> 5 + 10 * (j - 1)]

\* C9 witness: one generator ran to its end, and a second one, created
\* beside it, is two pairs into the first row
C9_Witness ==
  /\ Len(cgens) = 2
  /\ cgens[1].done /\ Len(cgens[1].out) = LatCount * LonCount
  /\ ~cgens[2].done /\ Len(cgens[2].out) = 2

\* the rows to_tsv wrote after the optional header row
DataRows == IF last.key = 1 THEN Tail(last.rows) ELSE last.rows

\* C10: to_tsv of onedd.py on an open reader whose header gives year, month
\* and days and whose file holds at least days complete records writes,
\* after the optional header row, exactly days * MEASUREMENTS_PER_DAY rows,
\* day by day and position by position; the row of day d and position p
\* holds the date of day d, the coordinate at position p and the reading at
\* position p of what get(d) returns.
C10_TsvRowPerDayAndPosition ==
  ( /\ DaysOK /\ ~closed /\ impl = "onedd" /\ last.op = "to_tsv"
    /\ Fields[headers].year.err = "" /\ Fields[headers].month.err = ""
    /\ nrec >= DayCount )
  => /\ last.err = ""
     /\ last.key = 1 => Head(last.rows) = TsvHeader
     /\ Len(DataRows) = DayCount * MEASUREMENTS_PER_DAY
     /\ \A d \in 0..(DayCount - 1) : \A p \in 0..(MEASUREMENTS_PER_DAY - 1) :
          /\ getitem(d).err = ""
          /\ DataRows[d * MEASUREMENTS_PER_DAY + p + 1] =
               << D4(Fields[headers].year.val) \o <<"-">>
                    \o D2(Fields[headers].month.val) \o <<"-">> \o D2(d + 1),
                  895 - 10 * (p \div LonCount),
                  5 + 10 * (p % LonCount),
                  getitem(d).grids[1].readings[p + 1].data >>

\* C10 witness: to_tsv wrote the header row and the rows of two days
C10_Witness ==
  /\ DaysOK /\ ~closed /\ impl = "onedd" /\ last.op = "to_tsv"
  /\ last.key = 1 /\ last.err = "" /\ DayCount = 2
  /\ Len(last.rows) = 1 + 2 * MEASUREMENTS_PER_DAY

\* the header's year and month, and the length of that month
HeaderYear == Fields[headers].year.val
HeaderMonth == Fields[headers].month.val
MonthLength == DaysInMonth(HeaderYear, HeaderMonth)

\* the days onedd.py's reader[key] returns carry year-month-(key+1), and a
\* key past the month's end raises ValueError after its record was read
C11_GetDatesDay ==
  ( /\ DaysOK /\ ~closed /\ impl = "onedd" /\ last.op = "get"
    /\ 0 <= last.key /\ last.key < DayCount /\ last.key < nrec )
  => IF last.key + 1 <= MonthLength
       THEN /\ last.err = ""
            /\ last.grids[1].date = <<HeaderYear, HeaderMonth, last.key + 1>>
       ELSE last.err = "ValueError" /\ last.grids = <<>>

\* C11 (as claimed): the date produced for index i is year-month-(i+1) of
\* the header, in the days reader[i] returns and in the time axis
\* time_coordinate writes; when i+1 is past the end of that month, producing
\* the day fails and no date of another month appears.
C11_DatesStayInTheMonth ==
  /\ C11_GetDatesDay
  /\ (DaysOK /\ impl = "gpcp.onedd" /\ last.op = "time_coordinate") =>
       IF DayCount <= MonthLength
         THEN /\ last.err = ""
              /\ \A i \in 1..Len(last.rows) :
                   last.rows[i].date = <<HeaderYear, HeaderMonth, i>>
         ELSE last.err # "" /\ last.rows = <<>>

\* the read calls among the stream calls of the last call
LastReads == {i \in 1..Len(last.log) : last.log[i].op = "read"}
\* the bytes of the file from offset p on
Remaining(p) ==
  IF p >= HEADER_SIZE + nrec * DAY_SIZE + tail THEN 0
  ELSE HEADER_SIZE + nrec * DAY_SIZE + tail - p

\* a get or a generator step reads at most once, and when fewer than
\* DAY_SIZE bytes were left where it read, it raised struct.error, returned
\* no day, read just what was left, and a generator is finished by it
C12_ShortReadRaises ==
  last.op \in {"get", "next"} =>
    /\ Cardinality(LastReads) <= 1
    /\ \A i \in LastReads :
         Remaining(last.log[i].at) < DAY_SIZE =>
           /\ last.err = "struct.error"
           /\ last.grids = <<>>
           /\ last.log[i].n = Remaining(last.log[i].at)
           /\ i = Len(last.log)
           /\ last.op = "next" => iters[last.key].st = "failed"

\* a generator that raised stays finished and yields nothing more
C12_FailedStaysFailed ==
  \A k \in 1..Len(iters) :
    iters[k].st = "failed" =>
      /\ iters'[k].st = "failed"
      /\ iters'[k].cnt = iters[k].cnt
      /\ (last'.op = "next" /\ last'.key = k /\ last' # last) => last'.grids = <<>>

\* C12: when fewer than DAY_SIZE bytes remain where a record is read, the
\* get call or generator step raises struct.error after that one read, with
\* no second read and no partly filled day, and the generator that hit the
\* error never yields again.
C12_ShortReadIsFatal == [](C12_ShortReadRaises) /\ [][C12_FailedStaysFailed]_vars

\* C12 witness: a generator yielded the first day and raised struct.error on
\* a second record cut off after one value
C12_Witness ==
  /\ ~closed /\ nrec = 1 /\ tail = REAL_SIZE /\ impl = "gpcp.onedd"
  /\ last.op = "next" /\ last.err = "struct.error"
  /\ iters[last.key].st = "failed" /\ iters[last.key].cnt = 1
  /\ last.log = <<[op |-> "read", at |-> HEADER_SIZE + DAY_SIZE, n |-> REAL_SIZE]>>

\* C13 (as claimed): whether or not the days property was evaluated before,
\* reader[key] with 0 <= key < days on an open reader never raises
\* IndexError, and every evaluation of days returns the end of the header's
\* days field.
C13_LazyDaysUnobservable ==
  /\ ( /\ DaysOK /\ ~closed /\ impl \in {"gpcp", "gpcp.onedd"}
       /\ last.op = "get" /\ 0 <= last.key /\ last.key < DayCount )
     => last.err # "IndexError"
  /\ (DaysOK /\ last.op = "days") => last.err = "" /\ last.key = DayCount

\* the step being taken is next() on generator j, suspended inside its loop
\* with days still to go, on an open stream
ResumedStep(j) ==
  /\ iters[j].st = "run" /\ iters[j].cnt < iters[j].n /\ ~closed
  /\ last'.op = "next" /\ last'.key = j
  /\ iters'[j] # iters[j]

\* such a step makes one read where fp stands and no seek; what it yields is
\* the record found there: after a successful reader[k] the record at index
\* k + 1, after another generator's yield the record behind that one's
C14_ResumedReadsAtCursor ==
  \A j \in 1..Len(iters) :
    ResumedStep(j) =>
      /\ Len(last'.log) = 1
      /\ last'.log[1].op = "read" /\ last'.log[1].at = pos
      /\ iters'[j].cnt <= iters[j].n
      /\ last'.err = "" =>
           /\ Len(last'.grids) = 1
           /\ iters'[j].cnt = iters[j].cnt + 1
           /\ \A c \in 1..MEASUREMENTS_PER_DAY :
                last'.grids[1].readings[c].data =
                  FlatValue((pos - HEADER_SIZE) \div REAL_SIZE + c - 1)
      /\ (last.op = "get" /\ last.err = "") =>
           /\ last'.log[1].at = HEADER_SIZE + (last.key + 1) * DAY_SIZE
           /\ last'.err = "" =>
                \A c \in 1..MEASUREMENTS_PER_DAY :
                  last'.grids[1].readings[c].data =
                    FlatValue((last.key + 1) * MEASUREMENTS_PER_DAY + c - 1)
      /\ (last.op = "next" /\ last.key # j /\ last.err = "") =>
           last'.log[1].at = last.log[Len(last.log)].at + DAY_SIZE

\* a generator yields at most days elements and is exhausted after days
C14_StopsAfterDays ==
  \A k \in 1..Len(iters) :
    (DaysOK /\ iters[k].st # "new") =>
      /\ iters[k].cnt <= DayCount
      /\ iters[k].st = "done" => iters[k].cnt = DayCount

\* C14: a suspended generator reads from the reader's one fp and never
\* seeks again: after reader[k] between two of its steps its next element is
\* the record at index k + 1, after a step of another generator it is the
\* record behind the one that generator read, and it still ends after days
\* elements in all.
C14_SharedCursor == [](C14_StopsAfterDays) /\ [][C14_ResumedReadsAtCursor]_vars

\* C14 witness: a generator of a three-day file yielded its first day, the
\* stream was moved on under it (by reader[1] or by another generator), and
\* its second element was read at index 2
C14_Witness ==
  /\ ~closed /\ DaysOK /\ DayCount = 3 /\ impl = "gpcp.onedd"
  /\ last.op = "next" /\ last.err = "" /\ Len(last.grids) = 1
  /\ iters[last.key].cnt = 2 /\ iters[last.key].mixed
  /\ last.log = <<[op |-> "read", at |-> HEADER_SIZE + 2 * DAY_SIZE, n |-> DAY_SIZE]>>
====
